---- MODULE Spec2Model ----
(***************************************************************************)
(* Model of the LINE stock-screening bot (src/app.py).                     *)
(*                                                                         *)
(* The program is a chain of pure stages (load_watchlist,                  *)
(* fetch_change_pct_and_volume, pick_rising_stocks_v3,                     *)
(* format_grouped_messages) driven by do_scan_and_push, which three        *)
(* triggers may run at the same time: the scheduler thread, the            *)
(* /daily-push route and the chat command.  Each stage has a               *)
(* specification of its own whose Init draws the stage's inputs (the       *)
(* environment variables and the network responses) and whose action       *)
(* applies the stage; SpecCycle is the state machine of the triggers.      *)
(*                                                                         *)
(* Text is a sequence of one-character strings.  Floating point numbers    *)
(* are modelled by exact integer arithmetic on scaled values.              *)
(***************************************************************************)
EXTENDS Integers, Sequences, FiniteSets, TLC

VARIABLES
    watchIn, watchOut,      \* load_watchlist: WATCHLIST and the registry answers; its result
    quoteIn, quoteOut,      \* fetch_change_pct_and_volume: the two answers; its result
    screenIn, screenOut,    \* one pass of the scan loop: thresholds and bars; its pick
    pickIn, pickOut,        \* pick_rising_stocks_v3: watchlist, answers, thresholds; the groups
    fmtIn, fmtOut,          \* format_grouped_messages: groups and limits; the pages
    conf,                   \* the environment of the process (USER_ID, WATCHLIST, limits)
    clock,                  \* the local date and time
    proc,                   \* per trigger: where its handler stands, and in which cycle
    reports,                \* per cycle started: what it rendered and what it pushed
    lastDone                \* the last cycle whose pushes all succeeded (0: none)

watchVars == <<watchIn, watchOut>>

quoteVars == <<quoteIn, quoteOut>>

screenVars == <<screenIn, screenOut>>

pickVars == <<pickIn, pickOut>>

fmtVars == <<fmtIn, fmtOut>>

cycleVars == <<conf, clock, proc, reports, lastDone>>

vars == <<watchVars, quoteVars, screenVars, pickVars, fmtVars, cycleVars>>

SeqsUpTo(S, n) == UNION {[1..k -> S] : k \in 0..n}

\* the result of a stage that has not run yet, and of one that has
Pending == [done |-> FALSE, value |-> <<>>]

Done(v) == [done |-> TRUE, value |-> v]

\* ------------------------------------------------------------------ text

Digits == {"0", "1", "2", "3", "4", "5", "6", "7", "8", "9"}

LowerCase == <<"a", "b", "c", "d", "e", "f", "g", "h", "i", "j", "k", "l", "m",
               "n", "o", "p", "q", "r", "s", "t", "u", "v", "w", "x", "y", "z">>

UpperCase == <<"A", "B", "C", "D", "E", "F", "G", "H", "I", "J", "K", "L", "M",
               "N", "O", "P", "Q", "R", "S", "T", "U", "V", "W", "X", "Y", "Z">>

\* str.upper(), one character
UpperChar(ch) ==
    IF \E i \in 1..26 : LowerCase[i] = ch
    THEN UpperCase[CHOOSE i \in 1..26 : LowerCase[i] = ch]
    ELSE ch

\* str.upper()
Upper(s) == [i \in 1..Len(s) |-> UpperChar(s[i])]

\* str.strip(): leading and trailing blanks removed
Strip(s) ==
    LET keep == {i \in 1..Len(s) : s[i] # " "}
    IN  IF keep = {} THEN <<>>
        ELSE LET lo == CHOOSE i \in keep : \A j \in keep : i <= j
                 hi == CHOOSE i \in keep : \A j \in keep : j <= i
             IN  SubSeq(s, lo, hi)

\* str.endswith(suffix)
EndsWith(s, suffix) ==
    /\ Len(s) >= Len(suffix)
    /\ SubSeq(s, Len(s) - Len(suffix) + 1, Len(s)) = suffix

\* str.isdigit(): not empty, digits only
IsDigit(s) == Len(s) > 0 /\ \A i \in 1..Len(s) : s[i] \in Digits

\* re.fullmatch(r"\d{4}", s)
FourDigits(s) == Len(s) = 4 /\ IsDigit(s)

\* str.split(sep): the fields between the separators, empty fields kept
RECURSIVE Split(_, _)
Split(s, sep) ==
    IF \A i \in 1..Len(s) : s[i] # sep THEN <<s>>
    ELSE LET p == CHOOSE i \in 1..Len(s) :
                      s[i] = sep /\ \A j \in 1..(i - 1) : s[j] # sep
         IN  <<SubSeq(s, 1, p - 1)>> \o Split(SubSeq(s, p + 1, Len(s)), sep)

\* sep.join(parts)
RECURSIVE Join(_, _)
Join(parts, sep) ==
    IF parts = <<>> THEN <<>>
    ELSE IF Len(parts) = 1 THEN parts[1]
    ELSE parts[1] \o <<sep>> \o Join(Tail(parts), sep)

TW == <<".", "T", "W">>

TWO == <<".", "T", "W", "O">>

ALL == <<"A", "L", "L">>

\* ------------------------------------------------------ universe resolver

\* None, as returned by normalize_code
None == <<"None">>

\* normalize_code(token)
normalize_code(token) ==
    LET t == Upper(Strip(token))
    IN  IF t = <<>> THEN None
        ELSE IF EndsWith(t, TW) \/ EndsWith(t, TWO)
             THEN LET core == Split(t, ".")[1]
                  IN  IF FourDigits(core) THEN core ELSE None
             ELSE IF FourDigits(t) THEN t ELSE None

\* nc if nc.endswith((".TW", ".TWO")) else nc + ".TW"
WithSuffix(nc) == IF EndsWith(nc, TW) \/ EndsWith(nc, TWO) THEN nc ELSE nc \o TW

\* the explicit-list loop of load_watchlist over the fields of WATCHLIST
RECURSIVE ExplicitCodes(_)
ExplicitCodes(fields) ==
    IF fields = <<>> THEN <<>>
    ELSE LET c  == Upper(Strip(Head(fields)))
             nc == normalize_code(c)
         IN  (IF c = <<>> \/ nc = None THEN <<>> ELSE <<WithSuffix(nc)>>)
             \o ExplicitCodes(Tail(fields))

\* one registry listing (TWSE or TPEx): the digit codes with the board suffix;
\* a failed request is caught and adds nothing
RegistryCodes(resp, suffix) ==
    IF resp.ok
    THEN LET codes == [i \in 1..Len(resp.rows) |-> Strip(resp.rows[i])]
         IN  [i \in 1..Len(SelectSeq(codes, IsDigit)) |->
                  SelectSeq(codes, IsDigit)[i] \o suffix]
    ELSE <<>>

\* the codes of one LIST_SOURCES document (JSON rows, or the first CSV field)
RECURSIVE SourceCodes(_, _)
SourceCodes(kind, items) ==
    IF items = <<>> THEN <<>>
    ELSE LET raw == IF kind = "json" THEN Head(items) ELSE Split(Head(items), ",")[1]
             c   == normalize_code(Upper(Strip(raw)))
         IN  (IF c = None THEN <<>> ELSE <<WithSuffix(c)>>)
             \o SourceCodes(kind, Tail(items))

\* the LIST_SOURCES loop: a failing source is caught and adds nothing
RECURSIVE ListSourceCodes(_)
ListSourceCodes(sources) ==
    IF sources = <<>> THEN <<>>
    ELSE (IF Head(sources).kind = "fail" THEN <<>>
          ELSE SourceCodes(Head(sources).kind, Head(sources).items))
         \o ListSourceCodes(Tail(sources))

\* the de-duplication loop at the end of load_watchlist
RECURSIVE Uniq(_, _)
Uniq(codes, seen) ==
    IF codes = <<>> THEN <<>>
    ELSE LET u == Upper(Head(codes))
         IN  IF (EndsWith(u, TW) \/ EndsWith(u, TWO)) /\ u \notin seen
             THEN <<u>> \o Uniq(Tail(codes), seen \cup {u})
             ELSE Uniq(Tail(codes), seen)

Code(digits) == digits \o TW

ExplicitFallback == <<Code(<<"2", "3", "3", "0">>)>>

AllFallback ==
    <<Code(<<"2", "3", "3", "0">>), Code(<<"2", "3", "1", "7">>),
      Code(<<"2", "4", "5", "4">>), Code(<<"2", "3", "0", "3">>),
      Code(<<"2", "4", "1", "2">>)>>

\* load_watchlist(): env is WATCHLIST, reg the registry and LIST_SOURCES responses
load_watchlist(env, reg) ==
    LET wl == Strip(env)
    IN  IF Upper(wl) # ALL
        THEN LET out == ExplicitCodes(Split(wl, ","))
             IN  IF out = <<>> THEN ExplicitFallback ELSE out
        ELSE LET codes == RegistryCodes(reg.twse, TW)
                          \o RegistryCodes(reg.tpex, TWO)
                          \o ListSourceCodes(reg.sources)
                 uniq  == Uniq(codes, {})
             IN  IF uniq = <<>> THEN AllFallback ELSE uniq

\* --------------------------------------------------------- quote fetcher

\* a null entry of a close or volume array (None after r.json()); the
\* entries that are numbers are >= 0
Null == -1

\* range(hi, -1, -1) over a 0-based array, as 1-based positions hi+1 .. 1:
\* the last position <= top that holds a non-null close, 0 when there is none
LastNonNull(closes, top) ==
    LET hits == {i \in 1..top : closes[i] # Null}
    IN  IF hits = {} THEN 0 ELSE CHOOSE i \in hits : \A j \in hits : j <= i

\* volumes[i] if i < len(volumes) else 0, then int(v or 0)
VolumeAt(volumes, i) ==
    IF i <= Len(volumes) /\ volumes[i] # Null THEN volumes[i] ELSE 0

\* the two scans of one response: loc is (last_price, last_close, last_volume)
ScanResponse(loc, closes, volumes) ==
    LET p == LastNonNull(closes, Len(closes))
        q == LastNonNull(closes, Len(closes) - 1)
    IN  [last_price  |-> IF p = 0 THEN loc.last_price ELSE closes[p],
         last_volume |-> IF p = 0 THEN loc.last_volume ELSE VolumeAt(volumes, p),
         last_close  |-> IF q = 0 THEN loc.last_close ELSE closes[q]]

\* last_price is not None and last_close not in (None, 0)
Usable(loc) == loc.last_price # Null /\ loc.last_close \notin {Null, 0}

\* the loop over the two urls; an http_get or json() error is not caught
RECURSIVE ScanUrls(_, _)
ScanUrls(loc, resps) ==
    IF resps = <<>> THEN [raised |-> FALSE, loc |-> loc]
    ELSE LET r == Head(resps)
         IN  IF r.kind = "error" THEN [raised |-> TRUE, loc |-> loc]
             ELSE IF r.kind = "empty" THEN ScanUrls(loc, Tail(resps))
             ELSE LET nxt == ScanResponse(loc, r.closes, r.volumes)
                  IN  IF Usable(nxt) THEN [raised |-> FALSE, loc |-> nxt]
                      ELSE ScanUrls(nxt, Tail(resps))

\* round(n / d, 0) for d > 0: to the nearest integer, a tie to the even one
RoundDiv(n, d) ==
    LET q == n \div d
        r == n - q * d
    IN  IF 2 * r < d THEN q
        ELSE IF 2 * r > d THEN q + 1
        ELSE IF q % 2 = 0 THEN q ELSE q + 1

\* round((last - prev) / prev * 100.0, 2), in hundredths of a percent
ChangePct(last, prev) == RoundDiv(10000 * (last - prev), prev)

NoLocals == [last_price |-> Null, last_close |-> Null, last_volume |-> 0]

\* fetch_change_pct_and_volume(tw_code): resps are the answers of the intraday
\* and of the daily request; chg is in hundredths of a percent
fetch_change_pct_and_volume(resps) ==
    LET s == ScanUrls(NoLocals, resps)
    IN  IF s.raised THEN [raised |-> TRUE, chg |-> 0, vol |-> 0, loc |-> s.loc]
        ELSE IF ~Usable(s.loc)
             THEN [raised |-> FALSE, chg |-> 0, vol |-> 0, loc |-> s.loc]
             ELSE [raised |-> FALSE,
                   chg |-> ChangePct(s.loc.last_price, s.loc.last_close),
                   vol |-> s.loc.last_volume, loc |-> s.loc]

\* ------------------------------------------------------- indicator engine
\* A float is modelled exactly: a fraction [num, den] in lowest terms
\* (den > 0), or NaN.  The series of the exponential averages are kept as
\* numerators over a known power of (n + 1), in two-limb integers.

\* math.nan: the fraction with denominator 0
NaN == [num |-> 0, den |-> 0]

Abs(x) == IF x < 0 THEN -x ELSE x

RECURSIVE GCD(_, _)
GCD(a, b) == IF b = 0 THEN a ELSE GCD(b, a % b)

\* the fraction n / d, d > 0, in lowest terms
Frac(n, d) ==
    LET g == GCD(Abs(n), d)
    IN  [num |-> n \div g, den |-> d \div g]

FInt(n) == [num |-> n, den |-> 1]

FAdd(a, b) ==
    LET l == (a.den \div GCD(a.den, b.den)) * b.den
    IN  Frac(a.num * (l \div a.den) + b.num * (l \div b.den), l)

FSub(a, b) == FAdd(a, [num |-> -b.num, den |-> b.den])

FDivInt(a, k) == Frac(a.num, a.den * k)

FMulInt(a, k) == Frac(a.num * k, a.den)

FLess(a, b) == a.num * b.den < b.num * a.den

FLeq(a, b) == a.num * b.den <= b.num * a.den

RECURSIVE FSum(_)
FSum(fs) == IF fs = <<>> THEN FInt(0) ELSE FAdd(Head(fs), FSum(Tail(fs)))

Ints(arr) == [i \in 1..Len(arr) |-> FInt(arr[i])]

Max(S) == CHOOSE x \in S : \A y \in S : y <= x

Min(S) == CHOOSE x \in S : \A y \in S : x <= y

\* the last min(i, n) entries of arr up to position i: the queue q of sma,
\* the window of bollinger, highs[left:i+1] of stochastic and donchian
Window(arr, i, n) == SubSeq(arr, Max({1, i - n + 1}), i)

\* sma(arr, n): the mean of the queue, which holds fewer than n entries
\* for the first n - 1 positions; with n = 0 the queue is empty: nan
sma(arr, n) ==
    [i \in 1..Len(arr) |->
        IF n <= 0 THEN NaN
        ELSE LET q == Window(arr, i, n)
             IN  FDivInt(FSum(q), Len(q))]

\* ---- two-limb integers: hi * Limb + lo with 0 <= lo < Limb

Limb == 100 * 100

Wide(n) == [hi |-> n \div Limb, lo |-> n % Limb]

WAdd(a, b) ==
    [hi |-> a.hi + b.hi + ((a.lo + b.lo) \div Limb), lo |-> (a.lo + b.lo) % Limb]

WNeg(a) ==
    IF a.lo = 0 THEN [hi |-> -a.hi, lo |-> 0]
    ELSE [hi |-> -a.hi - 1, lo |-> Limb - a.lo]

WSub(a, b) == WAdd(a, WNeg(b))

\* a * k for a small k >= 0
WMul(a, k) ==
    [hi |-> a.hi * k + ((a.lo * k) \div Limb), lo |-> (a.lo * k) % Limb]

\* a * k^e
RECURSIVE WMulPow(_, _, _)
WMulPow(a, k, e) == IF e = 0 THEN a ELSE WMulPow(WMul(a, k), k, e - 1)

WSign(a) == IF a.hi < 0 THEN -1 ELSE IF a.hi = 0 /\ a.lo = 0 THEN 0 ELSE 1

\* ema(arr, n): prev = x, then prev = (x - prev) * k + prev with
\* k = 2 / (n + 1).  arr holds numerators over one common denominator D;
\* entry i of the result is the numerator of prev over D * (n + 1)^(i - 1)
RECURSIVE ema(_, _)
ema(arr, n) ==
    IF Len(arr) <= 1 THEN arr
    ELSE LET head == ema(SubSeq(arr, 1, Len(arr) - 1), n)
             prev == head[Len(head)]
             x    == WMulPow(arr[Len(arr)], n + 1, Len(arr) - 2)
         IN  Append(head, WAdd(WMul(prev, n - 1), WMul(x, 2)))

Wides(arr) == [i \in 1..Len(arr) |-> Wide(arr[i])]

\* rsi(closes, period): the running state after position i (i = 0 is the
\* first bar); gains and losses are fractions
RECURSIVE RsiState(_, _, _)
RsiState(closes, period, i) ==
    IF i = 0 THEN [gains |-> FInt(0), losses |-> FInt(0), out |-> NaN]
    ELSE LET st     == RsiState(closes, period, i - 1)
             change == closes[i + 1] - closes[i]
             up     == Max({change, 0})
             down   == -Min({change, 0})
         IN  IF i <= period
             THEN LET g == FAdd(st.gains, FInt(up))
                      l == FAdd(st.losses, FInt(down))
                  IN  [gains |-> g, losses |-> l,
                       out |-> IF i = period /\ l.num > 0
                               THEN FDivInt(FMulInt(g, 100 * FAdd(g, l).den),
                                            FAdd(g, l).num)
                               ELSE NaN]
             ELSE LET g == FDivInt(FAdd(FMulInt(st.gains, period - 1), FInt(up)),
                                   period)
                      l == FDivInt(FAdd(FMulInt(st.losses, period - 1), FInt(down)),
                                   period)
                  IN  [gains |-> g, losses |-> l,
                       out |-> IF l.num > 0
                               THEN FDivInt(FMulInt(g, 100 * FAdd(g, l).den),
                                            FAdd(g, l).num)
                               ELSE FInt(100)]

\* rsi(closes, period): 100 - 100 / (1 + rs) = 100 * gains / (gains + losses)
rsi(closes, period) ==
    [i \in 1..Len(closes) |-> RsiState(closes, period, i - 1).out]

MACD_FAST == 12

MACD_SLOW == 26

MACD_SIGNAL == 9

\* macd(closes): the signs of the last macd value and of the last histogram
\* value (macd - signal).  With L closes, macd_line[i] is brought to the
\* denominator (FAST+1)^(L-1) * (SLOW+1)^(L-1) before the signal average
macd(closes) ==
    LET L        == Len(closes)
        ema_fast == ema(Wides(closes), MACD_FAST)
        ema_slow == ema(Wides(closes), MACD_SLOW)
        line     == [i \in 1..L |->
                        WSub(WMulPow(WMulPow(ema_fast[i], MACD_SLOW + 1, L - 1),
                                     MACD_FAST + 1, L - i),
                             WMulPow(WMulPow(ema_slow[i], MACD_FAST + 1, L - 1),
                                     MACD_SLOW + 1, L - i))]
        signal   == ema(line, MACD_SIGNAL)
        hist     == WSub(WMulPow(line[L], MACD_SIGNAL + 1, L - 1), signal[L])
    IN  [mv |-> WSign(line[L]), hv |-> WSign(hist)]

\* stochastic(highs, lows, closes, k_period, d_period): (k_list, d_list)
stochastic(highs, lows, closes, k_period, d_period) ==
    LET k_list == [i \in 1..Len(closes) |->
                      LET hh == Max({Window(highs, i, k_period)[j] :
                                        j \in 1..Len(Window(highs, i, k_period))})
                          ll == Min({Window(lows, i, k_period)[j] :
                                        j \in 1..Len(Window(lows, i, k_period))})
                      IN  IF hh = ll THEN FInt(50)
                          ELSE Frac((closes[i] - ll) * 100, hh - ll)]
    IN  [k |-> k_list, d |-> sma(k_list, d_period)]

\* bollinger(closes, n, mult): the middle band and the variance of the
\* window (the square of the rolling standard deviation); the deviation is
\* nan while the window holds fewer than 2 closes
bollinger(closes, n) ==
    LET ma == sma(Ints(closes), n)
    IN  [i \in 1..Len(closes) |->
            LET window == Window(closes, i, n)
                w      == Len(window)
                total  == FSum(Ints(window)).num
                sq     == FSum([j \in 1..w |-> FInt(window[j] * window[j])]).num
            IN  [mid |-> ma[i],
                 var |-> IF w < 2 THEN NaN ELSE Frac(w * sq - total * total, w * w)]]

\* h >= mid + mult * sqrt(var), mult10 = 10 * mult >= 0
AtLeastUpper(h, mid, var, mult10) ==
    LET d == FSub(FInt(h), mid)
    IN  /\ d.num >= 0
        /\ 100 * d.num * d.num * var.den >= mult10 * mult10 * var.num * d.den * d.den

\* atr(highs, lows, closes, period): the moving average of the true range
atr(highs, lows, closes, period) ==
    LET trs == [i \in 1..Len(closes) |->
                   IF i = 1 THEN highs[i] - lows[i]
                   ELSE Max({highs[i] - lows[i], Abs(highs[i] - closes[i - 1]),
                             Abs(lows[i] - closes[i - 1])})]
    IN  sma(Ints(trs), period)

\* donchian(highs, lows, n): (up, dn)
donchian(highs, lows, n) ==
    [up |-> [i \in 1..Len(highs) |->
                Max({Window(highs, i, n)[j] : j \in 1..Len(Window(highs, i, n))})],
     dn |-> [i \in 1..Len(highs) |->
                Min({Window(lows, i, n)[j] : j \in 1..Len(Window(lows, i, n))})]]

\* ------------------------------------------------------- screening engine
\* A bar is [h, l, c, v]; the open is stored by fetch_daily_bars and never
\* read.  The feed gives a positive high, low and close for every bar it
\* gives a close for, so no bar holds a nan.  Percentages (chg,
\* MIN_CHANGE_PCT) are in hundredths of a percent, ratios (VOL_SPIKE_RATIO,
\* YDAY_BREAKOUT_RATIO, BB_MULT) in tenths.

\* fetch_daily_bars(symbol, days): the bars of the rows that carry a close,
\* over range(min(len(closes), len(vols))); a failed request raises
fetch_daily_bars(resp) ==
    IF resp.kind = "error" THEN [raised |-> TRUE, bars |-> <<>>]
    ELSE IF resp.kind = "empty" THEN [raised |-> FALSE, bars |-> <<>>]
    ELSE LET HasClose(row) == row.c # Null
             rows == SelectSeq(resp.rows, HasClose)
         IN  [raised |-> FALSE,
              bars |-> [i \in 1..Len(rows) |->
                           [h |-> rows[i].h, l |-> rows[i].l, c |-> rows[i].c,
                            v |-> IF rows[i].v = Null THEN 0 ELSE rows[i].v]]]

RECURSIVE SumSeq(_)
SumSeq(s) == IF s = <<>> THEN 0 ELSE Head(s) + SumSeq(Tail(s))

\* compute_volume_features(bars, n), for a non-empty list of bars
compute_volume_features(bars, n) ==
    LET L     == Len(bars)
        today == bars[L]
        \* bars[-(n+1):-1] if len(bars) > 1 else []
        hist  == IF L > 1 THEN SubSeq(bars, Max({1, L - n}), L - 1) ELSE <<>>
        NonZero(b) == b.v # 0
        vols  == [i \in 1..Len(SelectSeq(hist, NonZero)) |->
                     SelectSeq(hist, NonZero)[i].v]
    IN  [today_c  |-> today.c,
         today_v  |-> today.v,
         vol_ma_n |-> IF vols = <<>> THEN 0 ELSE SumSeq(vols) \div Len(vols),
         yday_v   |-> IF L >= 2 THEN bars[L - 1].v ELSE 0,
         today_h  |-> today.h,
         yday_h   |-> IF L >= 2 THEN bars[L - 1].h ELSE NaN]

Column(bars, f) == [i \in 1..Len(bars) |-> bars[i][f]]

\* the gates of ta_pass, each TRUE when the gate is off or passed
GateSma(c, ta) ==
    ta.USE_PRICE_ABOVE_SMA =>
        LET sm == sma(Ints(c), ta.SMA_N)[Len(c)]
        IN  ~(sm = NaN \/ FLeq(FInt(c[Len(c)]), sm))

GateEma(c, ta) ==
    ta.USE_PRICE_ABOVE_EMA =>
        LET em == ema(Wides(c), ta.EMA_N)[Len(c)]
        IN  \* c[-1] <= em[-1], both over (EMA_N + 1)^(len - 1)
            ~(WSign(WSub(WMulPow(Wide(c[Len(c)]), ta.EMA_N + 1, Len(c) - 1), em)) <= 0)

GateRsi(c, ta) ==
    ta.USE_RSI_RANGE =>
        LET rv == rsi(c, ta.RSI_N)[Len(c)]
        IN  ~(rv = NaN \/ FLess(rv, FInt(ta.RSI_MIN)) \/ FLess(FInt(ta.RSI_MAX), rv))

GateMacd(c, ta) ==
    (ta.USE_MACD_POSITIVE \/ ta.USE_MACD_GOLDEN) =>
        LET m == macd(c)
        IN  /\ ta.USE_MACD_POSITIVE => (m.mv > 0 /\ m.hv > 0)
            \* mv > sv is hist > 0
            /\ ta.USE_MACD_GOLDEN => m.hv > 0

GateStoch(h, l, c, ta) ==
    ta.USE_STOCH =>
        LET kd == stochastic(h, l, c, ta.STO_K, ta.STO_D)
            kv == kd.k[Len(c)]
            dv == kd.d[Len(c)]
        IN  ~(dv = NaN \/ ~(FLess(dv, kv) /\ FLess(FInt(50), kv)))

GateBbands(h, c, ta) ==
    ta.USE_BBANDS_BREAK =>
        LET b == bollinger(c, ta.BB_N)[Len(c)]
        IN  /\ ~(b.mid = NaN \/ b.var = NaN)
            /\ FLeq(b.mid, FInt(c[Len(c)]))
            /\ AtLeastUpper(h[Len(h)], b.mid, b.var, ta.BB_MULT)

GateAtr(h, l, c, ta) ==
    ta.USE_ATR_PCT =>
        LET a == atr(h, l, c, ta.ATR_N)[Len(c)]
        IN  /\ ~(a = NaN \/ c[Len(c)] = 0)
            \* a / c * 100 >= ATR_MIN_PCT
            /\ ~(a.num * 100 < ta.ATR_MIN_PCT * c[Len(c)] * a.den)

GateDonchian(h, l, ta) ==
    ta.USE_DONCHIAN => ~(h[Len(h)] < donchian(h, l, ta.DON_N).up[Len(h)])

\* ta_pass(bars, ta)
ta_pass(bars, ta) ==
    IF Len(bars) < 3 THEN FALSE
    ELSE LET h == Column(bars, "h")
             l == Column(bars, "l")
             c == Column(bars, "c")
         IN  /\ GateSma(c, ta)
             /\ GateEma(c, ta)
             /\ GateRsi(c, ta)
             /\ GateMacd(c, ta)
             /\ GateStoch(h, l, c, ta)
             /\ GateBbands(h, c, ta)
             /\ GateAtr(h, l, c, ta)
             /\ GateDonchian(h, l, ta)

\* the baseline test with "and" in the place of "or": a pick has to fail both
\* thresholds to be dropped
BelowBothThresholds(chg, today_v, th) ==
    chg < th.MIN_CHANGE_PCT /\ today_v < th.MIN_VOLUME

\* chg < th["MIN_CHANGE_PCT"] or today_v < th["MIN_VOLUME"]
BelowBaseline(chg, today_v, th) ==
    chg < th.MIN_CHANGE_PCT \/ today_v < th.MIN_VOLUME

\* the volume-spike gate and the prior-day breakout gate, TRUE when rejected
BelowVolumeGates(f, th) ==
    \/ /\ th.USE_TODAY_VOL_SPIKE
       /\ f.vol_ma_n > 0
       /\ 10 * f.today_v < th.VOL_SPIKE_RATIO * f.vol_ma_n
    \/ /\ th.USE_YDAY_VOL_BREAKOUT
       /\ f.vol_ma_n > 0
       /\ ~(\/ 10 * f.yday_v >= th.YDAY_BREAKOUT_RATIO * f.vol_ma_n
            \/ f.today_h > f.yday_h)

\* classify_code(code, etf_set)
classify_code(code, etf_set) ==
    LET u == Upper(code)
    IN  IF u \in etf_set THEN "ETF"
        ELSE IF EndsWith(u, TWO) THEN "OTC"
        ELSE "LISTED"

NoPick == <<>>

\* the body of the loop of pick_rising_stocks_v3 for one code: the pick
\* (code, chg, today_v) it appends, or no pick (continue, also on any
\* exception)
ScanOne(code, resp, th) ==
    LET fetched == fetch_daily_bars(resp)
        bars    == fetched.bars
    IN  IF fetched.raised \/ bars = <<>> THEN NoPick
        ELSE LET f == compute_volume_features(bars, th.VOL_MA_N)
             IN  IF Len(bars) < 2 \/ bars[Len(bars) - 1].c = 0 THEN NoPick
                 ELSE LET chg == ChangePct(f.today_c, bars[Len(bars) - 1].c)
                      IN  IF BelowBaseline(chg, f.today_v, th) THEN NoPick
                          ELSE IF BelowVolumeGates(f, th) THEN NoPick
                          ELSE IF ~ta_pass(bars, th) THEN NoPick
                          ELSE <<code, chg, f.today_v>>

\* list.sort(key=lambda x: x[1], reverse=True): a stable sort on the change
\* percent alone, the higher first; entries of equal key keep their order
RECURSIVE SortByChange(_)
SortByChange(rows) ==
    IF rows = <<>> THEN <<>>
    ELSE LET top  == Max({rows[i][2] : i \in 1..Len(rows)})
             IsTop(r) == r[2] = top
             NotTop(r) == r[2] # top
         IN  SelectSeq(rows, IsTop) \o SortByChange(SelectSeq(rows, NotTop))

Tags == <<"LISTED", "OTC", "ETF">>

EmptyGroups == [t \in {"LISTED", "OTC", "ETF"} |-> <<>>]

\* the append with a batch that is lost when an instrument yields no pick
AddPickOrAbort(out, pick, etf_set) ==
    IF pick = NoPick THEN EmptyGroups
    ELSE [out EXCEPT ![classify_code(pick[1], etf_set)] = Append(@, pick)]

\* out[bucket].append(pick)
AddPick(out, pick, etf_set) ==
    IF pick = NoPick THEN out
    ELSE LET bucket == classify_code(pick[1], etf_set)
         IN  [out EXCEPT ![bucket] = Append(@, pick)]

\* the loop of pick_rising_stocks_v3 over the watchlist; resps[i] is the
\* answer to the request for watchlist[i]
RECURSIVE ScanAll(_, _, _, _)
ScanAll(watchlist, resps, th, etf_set) ==
    IF watchlist = <<>> THEN EmptyGroups
    ELSE LET n == Len(watchlist)
         IN  AddPick(ScanAll(SubSeq(watchlist, 1, n - 1), SubSeq(resps, 1, n - 1),
                             th, etf_set),
                     ScanOne(watchlist[n], resps[n], th), etf_set)

\* pick_rising_stocks_v3(watchlist, th, etf_set)
pick_rising_stocks_v3(watchlist, resps, th, etf_set) ==
    LET out == ScanAll(watchlist, resps, th, etf_set)
    IN  [t \in {"LISTED", "OTC", "ETF"} |-> SortByChange(out[t])]

\* ------------------------------------------------------ threshold profile

GateNames ==
    {"USE_TODAY_VOL_SPIKE", "USE_YDAY_VOL_BREAKOUT", "USE_PRICE_ABOVE_SMA",
     "USE_PRICE_ABOVE_EMA", "USE_RSI_RANGE", "USE_MACD_POSITIVE", "USE_MACD_GOLDEN",
     "USE_STOCH", "USE_BBANDS_BREAK", "USE_ATR_PCT", "USE_DONCHIAN"}

\* load_thresholds(profile): the PRE_ or LIVE_ variables of env, each with
\* its default; env maps the names that are set to their values
load_thresholds(profile, env) ==
    LET prefix == IF profile = "pre" THEN "PRE_" ELSE "LIVE_"
        Get(name, default) ==
            IF <<prefix, name>> \in DOMAIN env THEN env[<<prefix, name>>] ELSE default
    IN  [MIN_CHANGE_PCT        |-> Get("MIN_CHANGE_PCT", 50),
         MIN_VOLUME            |-> Get("MIN_VOLUME", 100000),
         USE_TODAY_VOL_SPIKE   |-> Get("USE_TODAY_VOL_SPIKE", FALSE),
         VOL_MA_N              |-> Get("VOL_MA_N", 5),
         VOL_SPIKE_RATIO       |-> Get("VOL_SPIKE_RATIO", 20),
         USE_YDAY_VOL_BREAKOUT |-> Get("USE_YDAY_VOL_BREAKOUT", FALSE),
         YDAY_BREAKOUT_RATIO   |-> Get("YDAY_BREAKOUT_RATIO", 15)]

\* build_ta_profile(profile): the indicator variables of env, each with its
\* default, updated with the thresholds of the profile
build_ta_profile(profile, env) ==
    LET Get(name, default) ==
            IF <<"", name>> \in DOMAIN env THEN env[<<"", name>>] ELSE default
        ta == [USE_PRICE_ABOVE_SMA |-> Get("USE_PRICE_ABOVE_SMA", FALSE),
               SMA_N               |-> Get("SMA_N", 20),
               USE_PRICE_ABOVE_EMA |-> Get("USE_PRICE_ABOVE_EMA", FALSE),
               EMA_N               |-> Get("EMA_N", 20),
               USE_RSI_RANGE       |-> Get("USE_RSI_RANGE", FALSE),
               RSI_N               |-> Get("RSI_N", 14),
               RSI_MIN             |-> Get("RSI_MIN", 50),
               RSI_MAX             |-> Get("RSI_MAX", 80),
               USE_MACD_POSITIVE   |-> Get("USE_MACD_POSITIVE", FALSE),
               USE_MACD_GOLDEN     |-> Get("USE_MACD_GOLDEN", FALSE),
               USE_STOCH           |-> Get("USE_STOCH", FALSE),
               STO_K               |-> Get("STO_K", 9),
               STO_D               |-> Get("STO_D", 3),
               USE_BBANDS_BREAK    |-> Get("USE_BBANDS_BREAK", FALSE),
               BB_N                |-> Get("BB_N", 20),
               BB_MULT             |-> Get("BB_MULT", 20),
               USE_ATR_PCT         |-> Get("USE_ATR_PCT", FALSE),
               ATR_N               |-> Get("ATR_N", 14),
               ATR_MIN_PCT         |-> Get("ATR_MIN_PCT", 1),
               USE_DONCHIAN        |-> Get("USE_DONCHIAN", FALSE),
               DON_N               |-> Get("DON_N", 20)]
        th == load_thresholds(profile, env)
    IN  [k \in DOMAIN ta \cup DOMAIN th |-> IF k \in DOMAIN th THEN th[k] ELSE ta[k]]

\* ---------------------------------------------------------------- reporter
\* A character outside ASCII is the string naming its code point; the line
\* feed is "\n".

NL == "\n"

DigitChars == <<"0", "1", "2", "3", "4", "5", "6", "7", "8", "9">>

\* str(n), n >= 0
RECURSIVE IntText(_)
IntText(n) ==
    IF n < 10 THEN <<DigitChars[n + 1]>>
    ELSE IntText(n \div 10) \o <<DigitChars[(n % 10) + 1]>>

\* f"{vol:,}", vol >= 0: groups of three digits
RECURSIVE GroupedText(_)
GroupedText(n) ==
    IF n < 1000 THEN IntText(n)
    ELSE GroupedText(n \div 1000)
         \o <<",", DigitChars[((n \div 100) % 10) + 1],
              DigitChars[((n \div 10) % 10) + 1], DigitChars[(n % 10) + 1]>>

\* f"{chg:.2f}" of a change in hundredths of a percent
PctText(chg) ==
    (IF chg < 0 THEN <<"-">> ELSE <<>>)
    \o IntText(Abs(chg) \div 100)
    \o <<".", DigitChars[((Abs(chg) \div 10) % 10) + 1], DigitChars[(Abs(chg) % 10) + 1]>>

\* f"{i+1}. {c}  漲幅 {chg:.2f}%  量 {vol:,}"
RowText(rank, pick) ==
    IntText(rank) \o <<".", " ">> \o pick[1]
    \o <<" ", " ", "U+6F32", "U+5E45", " ">> \o PctText(pick[2])
    \o <<"%", " ", " ", "U+91CF", " ">> \o GroupedText(pick[3])

\* fmt_rows(rows)
fmt_rows(rows) == [i \in 1..Len(rows) |-> RowText(i, rows[i])]

\* "【" + title_date + " 起漲清單】"
TitleText(title_date) ==
    <<"U+3010">> \o title_date \o <<" ", "U+8D77", "U+6F32", "U+6E05", "U+55AE", "U+3011">>

LabelOf(tag) ==
    IF tag = "LISTED" THEN <<"U+4E0A", "U+5E02">>
    ELSE IF tag = "OTC" THEN <<"U+4E0A", "U+6AC3">>
    ELSE <<"E", "T", "F">>

\* EMOJI_LISTED, EMOJI_OTC, EMOJI_ETF at their defaults
EmojiOf(tag) ==
    IF tag = "LISTED" THEN <<"U+1F4C8">>
    ELSE IF tag = "OTC" THEN <<"U+2728">>
    ELSE <<"U+1F4E6">>

\* f"【{title_date} 起漲清單】{emoji} {label}"
HeaderText(title_date, tag) ==
    TitleText(title_date) \o EmojiOf(tag) \o <<" ">> \o LabelOf(tag)

\* str.rstrip(): trailing blanks and line feeds removed
RECURSIVE RStrip(_)
RStrip(s) ==
    IF s # <<>> /\ s[Len(s)] \in {" ", NL} THEN RStrip(SubSeq(s, 1, Len(s) - 1)) ELSE s

\* the loop over the rows of one group: page and count are the page under
\* construction, pages those already closed
RECURSIVE PageRows(_, _, _, _, _, _, _)
PageRows(rows, header, page, count, pages, max_lines, max_chars) ==
    IF rows = <<>> THEN Append(pages, RStrip(page))
    ELSE LET line == Head(rows)
         IN  IF count >= max_lines \/ Len(page) + Len(line) + 1 > max_chars
             THEN PageRows(Tail(rows), header, header \o <<NL>> \o line \o <<NL>>, 1,
                           Append(pages, RStrip(page)), max_lines, max_chars)
             ELSE PageRows(Tail(rows), header, page \o line \o <<NL>>, count + 1,
                           pages, max_lines, max_chars)

\* the pages of one group, none for a group without rows
GroupPages(grouped, tag, title_date, max_lines, max_chars) ==
    LET rows   == fmt_rows(grouped[tag])
        header == HeaderText(title_date, tag)
    IN  IF rows = <<>> THEN <<>>
        ELSE PageRows(rows, header, header \o <<NL>>, 0, <<>>, max_lines, max_chars)

\* format_grouped_messages(grouped, title_date, max_lines, max_chars, ...)
format_grouped_messages(grouped, title_date, max_lines, max_chars) ==
    GroupPages(grouped, "LISTED", title_date, max_lines, max_chars)
    \o GroupPages(grouped, "OTC", title_date, max_lines, max_chars)
    \o GroupPages(grouped, "ETF", title_date, max_lines, max_chars)

\* the text pushed when no page was formatted:
\* f"【{now_s} 起漲清單】\n尚無符合條件的個股（或資料未更新）"
NoPicksText(now_s) ==
    TitleText(now_s)
    \o <<NL, "U+5C1A", "U+7121", "U+7B26", "U+5408", "U+689D", "U+4EF6", "U+7684",
         "U+500B", "U+80A1", "U+FF08", "U+6216", "U+8CC7", "U+6599", "U+672A",
         "U+66F4", "U+65B0", "U+FF09">>

\* -------------------------------------------------------------- poll cycle
\* The clock is [day, hhmm]: day 0 is Friday 2026-01-02, hhmm is
\* hour * 100 + minute.

FirstWeekday == 4

Weekday(day) == (FirstWeekday + day) % 7

TwoDigits(n) == <<DigitChars[(n \div 10) + 1], DigitChars[(n % 10) + 1]>>

\* dt.datetime.now(TZ).strftime("%Y-%m-%d %H:%M")
NowText(clk) ==
    <<"2", "0", "2", "6", "-", "0", "1", "-">> \o TwoDigits(2 + clk.day) \o <<" ">>
    \o TwoDigits(clk.hhmm \div 100) \o <<":">> \o TwoDigits(clk.hhmm % 100)

\* is_trading_now()
is_trading_now(clk) ==
    IF Weekday(clk.day) > 4 THEN FALSE
    ELSE 910 <= clk.hhmm /\ clk.hhmm <= 1330

\* _profile_from_query_or_now(req): query is the profile parameter
profile_from_query_or_now(query, clk) ==
    IF query \in {"pre", "live"} THEN query
    ELSE IF clk.hhmm >= 900 /\ clk.hhmm < 930 THEN "pre" ELSE "live"

\* do_scan_and_push(profile) up to the first push: the thresholds, the
\* picks, the time stamp and the pages; resps are the answers to the
\* requests of the scan
Render(profile, resps, clk, cfg) ==
    LET th        == build_ta_profile(profile, cfg.env)
        watchlist == load_watchlist(cfg.watchlist, cfg.registry)
        grouped   == pick_rising_stocks_v3(watchlist, resps, th, cfg.etf_set)
        now_s     == NowText(clk)
    IN  [th      |-> th,
         grouped |-> grouped,
         now_s   |-> now_s,
         msgs    |-> format_grouped_messages(grouped, now_s, cfg.max_lines, cfg.max_chars)]

\* the texts do_scan_and_push pushes, in order: nothing without USER_ID, the
\* no-picks text without pages, else the pages
Outbox(r, cfg) ==
    IF ~cfg.user_id THEN <<>>
    ELSE IF r.msgs = <<>> THEN <<NoPicksText(r.now_s)>>
    ELSE r.msgs

\* ---- inputs of the universe resolver

MaxTokens == 3

MaxRows == 2

T2330 == <<"2", "3", "3", "0">>

T6488 == <<"6", "4", "8", "8">>

\* fields a WATCHLIST may hold: plain, suffixed, lower case, padded, malformed
WatchTokens ==
    { T2330, T2330 \o TW, T2330 \o TWO, T6488 \o <<".", "t", "w", "o">>,
      <<" ">> \o T6488, <<"A", "B", "C">>, <<>> }

\* codes a registry row or a source line may hold
RowTokens == { T2330, T6488, <<"A", "B", "C">> }

Responses == {[ok |-> FALSE, rows |-> <<>>]}
             \cup {[ok |-> TRUE, rows |-> r] : r \in SeqsUpTo(RowTokens, MaxRows)}

SourceLines == RowTokens \cup {T6488 \o TWO \o <<",", "x">>}

SourceSets ==
    {<<>>, <<[kind |-> "fail", items |-> <<>>]>>}
    \cup {<<[kind |-> k, items |-> it]>> :
             k \in {"json", "csv"}, it \in SeqsUpTo(SourceLines, MaxRows)}

NoRegistry == [twse |-> [ok |-> FALSE, rows |-> <<>>],
               tpex |-> [ok |-> FALSE, rows |-> <<>>], sources |-> <<>>]

\* a WATCHLIST of up to n fields without registry, or WATCHLIST=ALL with any
\* answers of the registries and of one source
WatchInputs(n) ==
    {[env |-> Join(toks, ","), reg |-> NoRegistry] :
        toks \in SeqsUpTo(WatchTokens, n)}
    \cup {[env |-> e, reg |-> [twse |-> a, tpex |-> b, sources |-> c]] :
             e \in {ALL, <<"a", "l", "l", " ">>},
             a \in Responses, b \in Responses, c \in SourceSets}

\* ---- inputs of the quote fetcher

MaxCloses == 3

MaxDaily == 2

CloseValues == {Null, 0, 100, 105}

\* the volume array of a response: aligned with the closes, or one entry short
VolumeArrays(n) ==
    {[i \in 1..n |-> 1000 * i]}
    \cup (IF n > 0 THEN {[i \in 1..(n - 1) |-> 1000 * i]} ELSE {})

QuoteResponses(n) ==
    {[kind |-> "error", closes |-> <<>>, volumes |-> <<>>],
     [kind |-> "empty", closes |-> <<>>, volumes |-> <<>>]}
    \cup UNION {{[kind |-> "data", closes |-> c, volumes |-> v] :
                    v \in VolumeArrays(Len(c))} : c \in SeqsUpTo(CloseValues, n)}

\* the answers of the intraday request (up to n closes) and of the daily
\* request (up to d closes)
QuoteInputs(n, d) ==
    {<<a, b>> : a \in QuoteResponses(n), b \in QuoteResponses(d)}

\* ---- inputs of the screening engine

MaxBars == 3

ShortPeriod == 2

CloseLevels == {10, 11, 12}

\* a row of the daily feed: heavy volume comes with a wider range
FeedRows ==
    {[c |-> c, h |-> c, l |-> c, v |-> 1000] : c \in CloseLevels}
    \cup {[c |-> c, h |-> c + 1, l |-> c - 1, v |-> 3000] : c \in CloseLevels}
    \cup {[c |-> Null, h |-> Null, l |-> Null, v |-> Null]}

FeedFailures == {[kind |-> "error", rows |-> <<>>], [kind |-> "empty", rows |-> <<>>]}

\* the answers to a request for daily bars, of up to n rows
Feeds(n) == FeedFailures
            \cup {[kind |-> "data", rows |-> r] : r \in SeqsUpTo(FeedRows, n) \ {<<>>}}

\* the thresholds an environment sets for the two profiles
ProfileEnv ==
    (<<"PRE_", "MIN_CHANGE_PCT">> :> 50) @@ (<<"PRE_", "MIN_VOLUME">> :> 1000)
    @@ (<<"LIVE_", "MIN_CHANGE_PCT">> :> 200) @@ (<<"LIVE_", "MIN_VOLUME">> :> 2000)

PeriodNames == {"SMA_N", "EMA_N", "RSI_N", "STO_K", "STO_D", "BB_N", "ATR_N", "DON_N"}

\* an environment that switches the gates of on on, for both profiles, and,
\* with short set, gives every indicator the short period
GateEnv(on, short) ==
    [k \in {<<p, g>> : p \in {"PRE_", "LIVE_"},
                       g \in on \cap {"USE_TODAY_VOL_SPIKE", "USE_YDAY_VOL_BREAKOUT"}}
           \cup {<<"", g>> : g \in on \ {"USE_TODAY_VOL_SPIKE", "USE_YDAY_VOL_BREAKOUT"}}
       |-> TRUE]
    @@ [k \in (IF short
                THEN {<<"", n>> : n \in PeriodNames}
                     \cup {<<p, "VOL_MA_N">> : p \in {"PRE_", "LIVE_"}}
                ELSE {}) |-> ShortPeriod]
    @@ ProfileEnv

\* no gate, each gate alone, every gate
GateSets == {{}} \cup {{g} : g \in GateNames} \cup {GateNames}

Environments == {GateEnv(on, short) : on \in GateSets, short \in BOOLEAN}

Profiles == {"pre", "live"}

ScreenInputs(n) ==
    {[profile |-> p, env |-> e, resp |-> r] :
        p \in Profiles, e \in Environments, r \in Feeds(n)}

\* ---- inputs of pick_rising_stocks_v3

MaxWatch == 2

C2330 == <<"2", "3", "3", "0", ".", "T", "W">>

C6488 == <<"6", "4", "8", "8", ".", "T", "W", "O">>

C0050 == <<"0", "0", "5", "0", ".", "T", "W">>

C2317 == <<"2", "3", "1", "7", ".", "T", "W">>

PickCodes == {C2330, C2317, C6488, C0050}

\* load_etf_set() with ETF_CODES=0050
EtfSet == {C0050}

BaseRow == [c |-> 10, h |-> 10, l |-> 10, v |-> 1000]

\* the answers to one request for daily bars: a failure, or MaxBars rows of
\* which the last one varies
PickFeeds ==
    FeedFailures
    \cup {[kind |-> "data", rows |-> [i \in 1..MaxBars |-> IF i < MaxBars THEN BaseRow ELSE r]] :
             r \in FeedRows}

PickInputs ==
    {[watchlist |-> w, profile |-> p, env |-> GateEnv(on, FALSE), etf_set |-> EtfSet] :
        w \in SeqsUpTo(PickCodes, MaxWatch) \ {<<>>}, p \in Profiles, on \in GateSets}

\* answers to a request for daily bars: a failure, and bars that pass both
\* profiles
FeedDown == [kind |-> "error", rows |-> <<>>]

FeedUp ==
    [kind |-> "data", rows |-> <<BaseRow, BaseRow, [c |-> 12, h |-> 13, l |-> 11, v |-> 3000]>>]

\* the answers of a scan in which one instrument is looked at apart: a
\* failure, no bars, a single bar (no prior close), or bars that pass
ApartFeeds == FeedFailures \cup {[kind |-> "data", rows |-> <<BaseRow>>], FeedUp}

\* a watchlist, the answer to each of its requests, and the position drop of
\* the instrument looked at apart
ApartInputs(n) ==
    UNION {{[watchlist |-> w, resps |-> r, drop |-> d, profile |-> p,
             env |-> ProfileEnv, etf_set |-> EtfSet] :
               r \in [1..Len(w) -> ApartFeeds], d \in 1..Len(w), p \in Profiles} :
           w \in SeqsUpTo({C2330, C2317, C0050}, n) \ {<<>>}}

\* ---- inputs of format_grouped_messages

MaxGroupRows == 3

\* rows of a group: a short one and a long one
FmtPicks == {<<C2330, 396, 3000>>, <<C2330, 1000, 1234567>>}

FmtGroups ==
    {[t \in {"LISTED", "OTC", "ETF"} |->
         IF t = "LISTED" THEN a ELSE IF t = "OTC" THEN b ELSE <<>>] :
        a \in SeqsUpTo(FmtPicks, MaxGroupRows),
        b \in SeqsUpTo({<<C6488, 50, 900>>}, 1)}

\* "%Y-%m-%d %H:%M"
TitleDate ==
    <<"2", "0", "2", "6", "-", "0", "1", "-", "0", "2", " ", "0", "9", ":", "1", "0">>

\* MAX_LINES_PER_MSG and MAX_CHARS_PER_MSG: the defaults (25, 1800) and
\* limits that the rows of a group reach
LineLimits == {1, 2, 25}

CharLimits == {20, 40, 60, 100, 1800}

FmtInputs ==
    {[grouped |-> g, title_date |-> TitleDate, max_lines |-> ml, max_chars |-> mc] :
        g \in FmtGroups, ml \in LineLimits, mc \in CharLimits}

\* ---- inputs of the poll cycle

MaxDay == 1

MaxCycles == 2

\* minutes around the two ends of the trading window
ClockTimes == <<909, 910, 1330, 1331>>

\* WATCHLIST=2330,0050 with ETF_CODES=0050 and the limits at their defaults
CycleConfigs ==
    {[user_id |-> u, watchlist |-> <<"2", "3", "3", "0", ",", "0", "0", "5", "0">>,
      registry |-> NoRegistry, etf_set |-> EtfSet, env |-> ProfileEnv, max_lines |-> 25, max_chars |-> 1800] :
        u \in BOOLEAN}

\* the answers to the requests of one scan, in watchlist order: no pick, one
\* pick, or a pick in each of two groups
CycleScans == {<<FeedDown, FeedDown>>, <<FeedUp, FeedDown>>, <<FeedUp, FeedUp>>}

Triggers == {"sched", "route", "chat"}

\* ------------------------------------------------------------ the stages

WatchIdle == watchIn = <<>> /\ watchOut = Pending

QuoteIdle == quoteIn = <<>> /\ quoteOut = Pending

ScreenIdle == screenIn = <<>> /\ screenOut = Pending

PickIdle == pickIn = <<>> /\ pickOut = Pending

FmtIdle == fmtIn = <<>> /\ fmtOut = Pending

CycleIdle ==
    /\ conf = <<>> /\ clock = <<>> /\ proc = <<>> /\ reports = <<>> /\ lastDone = 0

\* ---- load_watchlist

InitWatch ==
    /\ watchIn \in WatchInputs(MaxTokens) /\ watchOut = Pending
    /\ QuoteIdle /\ ScreenIdle /\ PickIdle /\ FmtIdle /\ CycleIdle

\* one call of load_watchlist
LoadWatchlist ==
    /\ ~watchOut.done
    /\ watchOut' = Done(load_watchlist(watchIn.env, watchIn.reg))
    /\ UNCHANGED <<watchIn, quoteVars, screenVars, pickVars, fmtVars, cycleVars>>

NextWatch == LoadWatchlist

SpecWatch == InitWatch /\ [][NextWatch]_vars

\* ---- fetch_change_pct_and_volume

InitQuote ==
    /\ quoteIn \in QuoteInputs(MaxCloses, MaxDaily) /\ quoteOut = Pending
    /\ WatchIdle /\ ScreenIdle /\ PickIdle /\ FmtIdle /\ CycleIdle

\* one call of fetch_change_pct_and_volume (the /debug route)
FetchQuote ==
    /\ ~quoteOut.done
    /\ quoteOut' = Done(fetch_change_pct_and_volume(quoteIn))
    /\ UNCHANGED <<quoteIn, watchVars, screenVars, pickVars, fmtVars, cycleVars>>

NextQuote == FetchQuote

SpecQuote == InitQuote /\ [][NextQuote]_vars

\* ---- one pass of the loop of pick_rising_stocks_v3

InitScreen ==
    /\ screenIn \in ScreenInputs(MaxBars) /\ screenOut = Pending
    /\ WatchIdle /\ QuoteIdle /\ PickIdle /\ FmtIdle /\ CycleIdle

\* the pass for one code: fetch the bars, apply every gate
ScreenOne ==
    /\ ~screenOut.done
    /\ screenOut' = Done(ScanOne(C2330, screenIn.resp,
                                 build_ta_profile(screenIn.profile, screenIn.env)))
    /\ UNCHANGED <<screenIn, watchVars, quoteVars, pickVars, fmtVars, cycleVars>>

NextScreen == ScreenOne

SpecScreen == InitScreen /\ [][NextScreen]_vars

\* ---- pick_rising_stocks_v3

InitPick ==
    /\ pickIn \in PickInputs
    /\ pickOut = [done |-> FALSE, idx |-> 0, value |-> EmptyGroups]
    /\ WatchIdle /\ QuoteIdle /\ ScreenIdle /\ FmtIdle /\ CycleIdle

\* one pass of the loop, for the code at position idx + 1 and any answer to
\* its request; after the last code the groups are sorted and returned
ScanNext ==
    /\ ~pickOut.done
    /\ \E resp \in PickFeeds :
       \E th \in {build_ta_profile(pickIn.profile, pickIn.env)} :
       \E out \in {AddPick(pickOut.value,
                            ScanOne(pickIn.watchlist[pickOut.idx + 1], resp, th),
                            pickIn.etf_set)} :
          LET i    == pickOut.idx + 1
              last == i = Len(pickIn.watchlist)
          IN  pickOut' = [done  |-> last, idx |-> i,
                          value |-> IF last
                                    THEN [t \in DOMAIN out |-> SortByChange(out[t])]
                                    ELSE out]
    /\ UNCHANGED <<pickIn, watchVars, quoteVars, screenVars, fmtVars, cycleVars>>

NextPick == ScanNext

SpecPick == InitPick /\ [][NextPick]_vars

\* ---- format_grouped_messages

InitFmt ==
    /\ fmtIn \in FmtInputs /\ fmtOut = Pending
    /\ WatchIdle /\ QuoteIdle /\ ScreenIdle /\ PickIdle /\ CycleIdle

\* one call of format_grouped_messages
FormatPages ==
    /\ ~fmtOut.done
    /\ fmtOut' = Done(format_grouped_messages(fmtIn.grouped, fmtIn.title_date,
                                               fmtIn.max_lines, fmtIn.max_chars))
    /\ UNCHANGED <<fmtIn, watchVars, quoteVars, screenVars, pickVars, cycleVars>>

NextFmt == FormatPages

SpecFmt == InitFmt /\ [][NextFmt]_vars

\* ---- pick_rising_stocks_v3 with and without one instrument

\* s without its element at position i
RemoveAt(s, i) == SubSeq(s, 1, i - 1) \o SubSeq(s, i + 1, Len(s))

InitApart ==
    /\ pickIn \in ApartInputs(MaxWatch)
    /\ pickOut = [done |-> FALSE, value |-> EmptyGroups, without |-> EmptyGroups]
    /\ WatchIdle /\ QuoteIdle /\ ScreenIdle /\ FmtIdle /\ CycleIdle

\* one call of pick_rising_stocks_v3 on the watchlist, and one on the
\* watchlist without the instrument at position drop, the other requests
\* answered alike
ScanBoth ==
    /\ ~pickOut.done
    /\ \E th \in {build_ta_profile(pickIn.profile, pickIn.env)} :
          pickOut' = [done    |-> TRUE,
                      value   |-> pick_rising_stocks_v3(pickIn.watchlist, pickIn.resps,
                                                        th, pickIn.etf_set),
                      without |-> pick_rising_stocks_v3(
                                      RemoveAt(pickIn.watchlist, pickIn.drop),
                                      RemoveAt(pickIn.resps, pickIn.drop),
                                      th, pickIn.etf_set)]
    /\ UNCHANGED <<pickIn, watchVars, quoteVars, screenVars, fmtVars, cycleVars>>

NextApart == ScanBoth

SpecApart == InitApart /\ [][NextApart]_vars

\* ---- the triggers and do_scan_and_push

StageVars == <<watchVars, quoteVars, screenVars, pickVars, fmtVars>>

InitCycle ==
    /\ conf \in CycleConfigs
    /\ clock = [day |-> 0, hhmm |-> ClockTimes[1]]
    /\ proc = [p \in Triggers |-> [pc |-> "idle", cycle |-> 0]]
    /\ reports = <<>>
    /\ lastDone = 0
    /\ WatchIdle /\ QuoteIdle /\ ScreenIdle /\ PickIdle /\ FmtIdle

\* do_scan_and_push(profile) from its first line to the first push, run by
\* trigger p: the cycle is entered in reports with what it rendered
BeginCycle(p, profile) ==
    /\ Len(reports) < MaxCycles
    /\ \E resps \in CycleScans :
       \E r \in {Render(profile, resps, clock, conf)} :
       \E out \in {Outbox(r, conf)} :
              /\ reports' = Append(reports,
                     [by      |-> p,
                      day     |-> clock.day,
                      hhmm    |-> clock.hhmm,
                      th      |-> [MIN_CHANGE_PCT |-> r.th.MIN_CHANGE_PCT,
                                   MIN_VOLUME |-> r.th.MIN_VOLUME],
                      picks   |-> Len(r.grouped["LISTED"]) + Len(r.grouped["OTC"])
                                  + Len(r.grouped["ETF"]),
                      outbox  |-> out,
                      sent    |-> <<>>,
                      prev    |-> lastDone,
                      overlap |-> {proc[q].cycle : q \in {t \in Triggers : proc[t].pc = "push"}}])
              /\ proc' = [proc EXCEPT ![p] =
                             IF out = <<>> THEN [pc |-> "return", cycle |-> 0]
                             ELSE [pc |-> "push", cycle |-> Len(reports) + 1]]
    /\ UNCHANGED <<conf, clock, lastDone, StageVars>>

\* job_every_5min(), called by the scheduler thread
SchedJob ==
    /\ proc["sched"].pc = "idle"
    /\ is_trading_now(clock)
    /\ BeginCycle("sched", "live")

\* daily_push_route(), with or without a profile parameter
DailyPush ==
    /\ proc["route"].pc = "idle"
    /\ \E query \in {"pre", "live", ""} :
          BeginCycle("route", profile_from_query_or_now(query, clock))

\* handle_message(event) with the test command
ChatTest ==
    /\ proc["chat"].pc = "idle"
    /\ BeginCycle("chat", "live")

\* handle_message(event) with any other text: it is echoed
ChatEcho ==
    /\ proc["chat"].pc = "idle"
    /\ proc' = [proc EXCEPT !["chat"] = [pc |-> "return", cycle |-> 0]]
    /\ UNCHANGED <<conf, clock, reports, lastDone, StageVars>>

\* line_bot_api.push_message(...) of the next text of trigger p's cycle:
\* it succeeds, or raises, which ends do_scan_and_push
PushPage(p) ==
    /\ proc[p].pc = "push"
    /\ LET c == proc[p].cycle
           k == Len(reports[c].sent) + 1
       IN  \E ok \in BOOLEAN :
              /\ reports' = [reports EXCEPT ![c].sent = Append(@, ok)]
              /\ proc' = [proc EXCEPT ![p] =
                             IF ok /\ k < Len(reports[c].outbox) THEN @
                             ELSE [pc |-> "return", cycle |-> 0]]
              /\ lastDone' = IF ok /\ k = Len(reports[c].outbox)
                                   /\ \A i \in 1..(k - 1) : reports[c].sent[i]
                             THEN c ELSE lastDone
    /\ UNCHANGED <<conf, clock, StageVars>>

\* the handler of trigger p returns (the job ends, the route answers, the
\* chat handler replies)
Return(p) ==
    /\ proc[p].pc = "return"
    /\ proc' = [proc EXCEPT ![p] = [pc |-> "idle", cycle |-> 0]]
    /\ UNCHANGED <<conf, clock, reports, lastDone, StageVars>>

\* time passes: the next minute of interest, or the next day
Tick ==
    /\ \E i \in 1..Len(ClockTimes) :
          /\ clock.hhmm = ClockTimes[i]
          /\ IF i < Len(ClockTimes)
             THEN clock' = [clock EXCEPT !.hhmm = ClockTimes[i + 1]]
             ELSE /\ clock.day < MaxDay
                  /\ clock' = [day |-> clock.day + 1, hhmm |-> ClockTimes[1]]
    /\ UNCHANGED <<conf, proc, reports, lastDone, StageVars>>

NextCycle ==
    \/ SchedJob
    \/ DailyPush
    \/ ChatTest
    \/ ChatEcho
    \/ \E p \in Triggers : PushPage(p)
    \/ \E p \in Triggers : Return(p)
    \/ Tick

SpecCycle == InitCycle /\ [][NextCycle]_vars

\* ------------------------------------------------------------ the claims

AllReports == 1..Len(reports)

\* cycle c delivered at least one of its texts
Delivered(c) == \E i \in 1..Len(reports[c].sent) : reports[c].sent[i]

\* C1: a cycle that renders the page sequence of the report last delivered,
\* on the same calendar day, delivers nothing.
C1_RepeatedReportIsSuppressed ==
    \A b \in AllReports :
        LET a == reports[b].prev
        IN  (a # 0 /\ reports[a].day = reports[b].day
                   /\ reports[a].outbox = reports[b].outbox)
            => ~Delivered(b)

\* C2: of two cycles in progress at the same time that render the same report
\* on the same day, at most one pushes it: they never have both pushed the
\* same page.
C2_OneOfTwoConcurrentCyclesDelivers ==
    \A b \in AllReports : \A a \in reports[b].overlap :
        (reports[a].day = reports[b].day /\ reports[a].outbox = reports[b].outbox)
        => ~\E i \in 1..Len(reports[a].sent) :
                /\ i <= Len(reports[b].sent)
                /\ reports[a].sent[i] /\ reports[b].sent[i]

\* the lines of a page
Lines(page) == Split(page, NL)

\* C3: a page of format_grouped_messages carries at most max_lines rows and
\* at most max_chars characters, for max_lines >= 1.
C3_PagesWithinLimits ==
    (fmtOut.done /\ fmtIn.max_lines >= 1) =>
        \A i \in 1..Len(fmtOut.value) :
            /\ Len(Lines(fmtOut.value[i])) - 1 <= fmtIn.max_lines
            /\ Len(fmtOut.value[i]) <= fmtIn.max_chars

RECURSIVE Concat(_)
Concat(seqs) == IF seqs = <<>> THEN <<>> ELSE Head(seqs) \o Concat(Tail(seqs))

\* the rows on the pages of the group tag, in order, headers dropped
RowsOnPages(tag) ==
    LET OfGroup(page) == Lines(page)[1] = HeaderText(fmtIn.title_date, tag)
        pages == SelectSeq(fmtOut.value, OfGroup)
    IN  Concat([i \in 1..Len(pages) |-> Tail(Lines(pages[i]))])

\* C4: the pages of a group, headers dropped, hold the rows of the group, each
\* once, in rank order; a page begins with the header of its group and
\* carries at least one row.
C4_PagesPartitionTheRows ==
    fmtOut.done =>
        /\ \A tag \in {"LISTED", "OTC", "ETF"} :
               RowsOnPages(tag) = fmt_rows(fmtIn.grouped[tag])
        /\ \A i \in 1..Len(fmtOut.value) :
               /\ \E tag \in {"LISTED", "OTC", "ETF"} :
                      Lines(fmtOut.value[i])[1] = HeaderText(fmtIn.title_date, tag)
               /\ Len(Lines(fmtOut.value[i])) >= 2

\* C5: in a group of pick_rising_stocks_v3 the higher change comes first, and
\* of two picks of equal change the higher volume comes first.
C5_GroupsOrderedByChangeThenVolume ==
    pickOut.done =>
        \A tag \in {"LISTED", "OTC", "ETF"} :
            LET g == pickOut.value[tag]
            IN  \A i, j \in 1..Len(g) :
                    i < j => \/ g[i][2] > g[j][2]
                             \/ g[i][2] = g[j][2] /\ g[i][3] >= g[j][3]

NoDuplicates(s) == \A i, j \in 1..Len(s) : i # j => s[i] # s[j]

\* C6: the resolved universe never holds the same identifier twice, in
\* explicit-list mode as in all-markets mode.
C6_UniverseHasNoDuplicates == watchOut.done => NoDuplicates(watchOut.value)

\* C7: with the last price at position p of the intraday closes, the prior
\* close is the last non-null close at a position strictly below p.
C7_PriorCloseIsBelowLastPrice ==
    (quoteOut.done /\ quoteIn[1].kind = "data") =>
        LET closes == quoteIn[1].closes
            p == LastNonNull(closes, Len(closes))
            q == LastNonNull(closes, p - 1)
        IN  (p # 0 /\ q # 0 /\ closes[q] # 0) =>
                /\ ~quoteOut.value.raised
                /\ quoteOut.value.loc.last_price = closes[p]
                /\ quoteOut.value.loc.last_close = closes[q]

\* the gates with a period, and the number of bars their indicator needs to
\* be defined at the last bar
GatePeriods(ta) ==
    {<<ta.USE_PRICE_ABOVE_SMA, ta.SMA_N>>,
     <<ta.USE_RSI_RANGE, ta.RSI_N + 1>>,
     <<ta.USE_BBANDS_BREAK, ta.BB_N>>,
     <<ta.USE_ATR_PCT, ta.ATR_N>>,
     <<ta.USE_DONCHIAN, ta.DON_N>>}

\* C8: an instrument with fewer bars than an enabled gate's indicator needs
\* is never a pick.
C8_ShortSeriesIsRejected ==
    screenOut.done =>
        LET ta   == build_ta_profile(screenIn.profile, screenIn.env)
            bars == fetch_daily_bars(screenIn.resp).bars
        IN  (\E g \in GatePeriods(ta) : g[1] /\ Len(bars) < g[2])
            => screenOut.value = NoPick

\* text holds part as a contiguous run of characters
Contains(text, part) ==
    \E i \in 0..(Len(text) - Len(part)) : SubSeq(text, i + 1, i + Len(part)) = part

\* the shortest decimal writing of a percentage given in hundredths
ShortPct(v) ==
    IF v % 100 = 0 THEN IntText(v \div 100)
    ELSE IF v % 10 = 0 THEN IntText(v \div 100) \o <<".", DigitChars[((v \div 10) % 10) + 1]>>
    ELSE PctText(v)

\* C9: a cycle without a pick pushes exactly one page, and the page states
\* the minimum change percent and the minimum volume in force.
C9_NoPicksPageStatesThresholds ==
    \A c \in AllReports :
        (reports[c].picks = 0 /\ conf.user_id) =>
            /\ Len(reports[c].outbox) = 1
            /\ Contains(reports[c].outbox[1], ShortPct(reports[c].th.MIN_CHANGE_PCT))
            /\ \/ Contains(reports[c].outbox[1], IntText(reports[c].th.MIN_VOLUME))
               \/ Contains(reports[c].outbox[1], GroupedText(reports[c].th.MIN_VOLUME))

PickThresholds == build_ta_profile(pickIn.profile, pickIn.env)

\* C10: every pick of pick_rising_stocks_v3 has a change percent of at least
\* MIN_CHANGE_PCT and a volume of at least MIN_VOLUME of the profile, under
\* every combination of optional gates.
C10_PicksMeetBaseline ==
    \A tag \in {"LISTED", "OTC", "ETF"} :
        \A i \in 1..Len(pickOut.value[tag]) :
            /\ pickOut.value[tag][i][2] >= PickThresholds.MIN_CHANGE_PCT
            /\ pickOut.value[tag][i][3] >= PickThresholds.MIN_VOLUME

\* the scan has returned picks under a profile with an optional gate on
C10_PicksReturned ==
    /\ pickOut.done
    /\ \E tag \in {"LISTED", "OTC", "ETF"} : pickOut.value[tag] # <<>>
    /\ \E g \in GateNames : PickThresholds[g]

\* an exclusion set that names 2026-01-02, the first day of the clock
ExcludedDays == {0}

\* the cycle was started on a weekday, inside the window, bounds included
InTradingWindow(r) == Weekday(r.day) <= 4 /\ 910 <= r.hhmm /\ r.hhmm <= 1330

\* C11: a cycle of the periodic scheduler starts only on a date outside the
\* exclusion set, on a weekday, between 09:10 and 13:30 inclusive.
C11_SchedulerRunsOnlyOnTradingDays ==
    \A c \in AllReports :
        reports[c].by = "sched" =>
            reports[c].day \notin ExcludedDays /\ InTradingWindow(reports[c])

\* no trigger is still pushing the texts of cycle c
Ended(c) == \A p \in Triggers : proc[p].cycle # c

\* C12: a cycle attempts every page of its report once, also the pages after
\* one whose push failed.
C12_EveryPageIsAttempted ==
    \A c \in AllReports :
        Ended(c) => Len(reports[c].sent) = Len(reports[c].outbox)

\* the request for the bars of an instrument failed, or its answer holds no
\* bars or no prior close
Failing(resp) ==
    LET fetched == fetch_daily_bars(resp)
    IN  \/ fetched.raised
        \/ Len(fetched.bars) < 2
        \/ fetched.bars[Len(fetched.bars) - 1].c = 0

AllPicks(grouped) == grouped["LISTED"] \o grouped["OTC"] \o grouped["ETF"]

\* C13: an instrument whose fetch fails yields no pick, and the groups are
\* those of the scan of the watchlist without it.
C13_FailureIsIsolated ==
    (pickOut.done /\ Failing(pickIn.resps[pickIn.drop])) =>
        pickOut.value = pickOut.without

\* an instrument failed in a scan that picked another one
C13_FailedBesideAPick ==
    /\ pickOut.done
    /\ Failing(pickIn.resps[pickIn.drop])
    /\ AllPicks(pickOut.value) # <<>>

\* C14: fetch_change_pct_and_volume returns a value and never an error; when
\* no usable pair of prices was found the value is (0.0, 0).
C14_QuoteIsAValue ==
    quoteOut.done =>
        /\ ~quoteOut.value.raised
        /\ ~Usable(quoteOut.value.loc) =>
               (quoteOut.value.chg = 0 /\ quoteOut.value.vol = 0)

\* the fields of an explicit WATCHLIST, stripped and in upper case
ExplicitFields ==
    LET fields == Split(Strip(watchIn.env), ",")
    IN  [i \in 1..Len(fields) |-> Upper(Strip(fields[i]))]

\* C15: an instrument written with the suffix .TWO in the explicit WATCHLIST
\* is in the resolved universe with that suffix.
C15_ExplicitListKeepsTheBoard ==
    (watchOut.done /\ Upper(Strip(watchIn.env)) # ALL) =>
        \A i \in 1..Len(ExplicitFields) :
            LET t == ExplicitFields[i]
            IN  (EndsWith(t, TWO) /\ normalize_code(t) # None) =>
                    \E k \in 1..Len(watchOut.value) :
                        watchOut.value[k] = normalize_code(t) \o TWO

====
